---- MODULE Spec2Model ----
(***************************************************************************)
(* Model of the scoring-and-validation engine of vedantwpatil/Bias-Engine: *)
(*   - backtest/engine.go : RunBacktest, getClosePriceNDaysLater,          *)
(*                          calculateAccuracy                              *)
(*   - main.go            : calculateWeightedSentiment, calculateConsensus,*)
(*                          determineRiskWeighted,                         *)
(*                          analyzeSentimentConcurrent                     *)
(*                                                                         *)
(* float64 values are modelled exactly: prices are integers, returns and   *)
(* accuracies are reduced fractions [n, d] with d > 0.                     *)
(***************************************************************************)
EXTENDS Integers, Sequences, FiniteSets, TLC

\* ------------------------------------------------------------------ bounds
MaxEntries == 1      \* historical analyses returned by the store
MaxPrices == 3       \* price points returned by the stock service
MaxTick == 1         \* latest time of day (in ticks) of an analysis
MaxScored == 3       \* records handed to calculateAccuracy on its own
MaxArticles == 3     \* articles handed to the aggregator
MaxImpact == 2       \* largest impact score of an article
MaxBatch == 2        \* articles handed to analyzeSentimentConcurrent
MaxWorkers == 2      \* largest worker pool

\* ------------------------------------------------------- program constants
SearchWindow == 5    \* engine.go:103  for offset := 0; offset < 5
Horizon1D == 1       \* engine.go:68
Horizon7D == 7       \* engine.go:69
Horizon30D == 30     \* engine.go:70

\* ------------------------------------------------------------ input shapes
TicksPerDay == 2     \* a time.Time carries a time of day; Format drops it
OpenBase == 100      \* opening price of every price point of the series
Trends == {-1, 0, 1} \* close of day d is OpenBase + trend * (d - 1)

Horizons == {"1D", "7D", "30D"}
RiskLabels == {"Safe Investment", "Moderate Risk", "High Risk", "Very High Risk"}

VARIABLES
    priceMap,   \* engine.go:54   map[string]stocks.PriceData (day -> point)
    trend,      \* the series the stock service serves (input)
    entries,    \* engine.go:31   []models.BacktestEntry
    pc,         \* position of RunBacktest
    i,          \* engine.go:60   loop index (1-based here)
    result,     \* engine.go:84   models.BacktestResult
    err         \* engine.go:26   the error RunBacktest returns

btVars == <<priceMap, trend, entries, pc, i, result, err>>

VARIABLES
    articles,      \* main.go:186  []models.Article handed to the aggregator
    avgSentiment,  \* main.go:187  CompanyAnalysis.AvgSentiment
    consensus,     \* main.go:338  consensus inside determineRiskWeighted
    riskScore,     \* main.go:188  CompanyAnalysis.RiskScore
    aggPc          \* position of the analysis

aggVars == <<articles, avgSentiment, consensus, riskScore, aggPc>>

VARIABLES
    numWorkers,    \* main.go:197  size of the worker pool
    articlesChan,  \* main.go:199  buffered channel of article indices
    chanClosed,    \* main.go:233  close(articlesChan)
    mainPc,        \* position of analyzeSentimentConcurrent
    sendI,         \* main.go:230  next index to send (1-based here)
    wPc,           \* position of each worker goroutine
    wIdx,          \* main.go:204  idx of each worker
    wText,         \* main.go:206  fullText of each worker
    dequeuedBy,    \* history: the workers that received each index
    callResult     \* history: what analyzeSentiment returned for each index

concVars == <<numWorkers, articlesChan, chanClosed, mainPc, sendI, wPc, wIdx,
              wText, dequeuedBy, callResult>>

VARIABLES
    impArticle,    \* main.go:64   the article handed to calculateImpactScore
    confidence,    \* main.go:79   confidence inside calculateImpactScore
    impPc          \* position of the scoring

impVars == <<impArticle, confidence, impPc>>

VARIABLES
    prediction,    \* part_003:84  the Prediction of one test period
    valPc          \* position of the validation of that period

valVars == <<prediction, valPc>>

otherThanBT == <<aggVars, concVars, impVars, valVars>>
otherThanAgg == <<btVars, concVars, impVars, valVars>>
otherThanConc == <<btVars, avgSentiment, consensus, riskScore, aggPc,
                   impVars, valVars>>
otherThanImp == <<btVars, aggVars, concVars, valVars>>
otherThanVal == <<btVars, aggVars, concVars, impVars>>

vars == <<btVars, aggVars, concVars, impVars, valVars>>

\* ------------------------------------------------------------- arithmetic
Abs(x) == IF x < 0 THEN -x ELSE x

RECURSIVE GCD(_, _)
GCD(a, b) == IF b = 0 THEN a ELSE GCD(b, a % b)

Sgn(x) == IF x < 0 THEN -1 ELSE IF x > 0 THEN 1 ELSE 0

\* the float n/d in lowest terms with a positive denominator; a zero
\* denominator is what float64 division by zero gives: NaN (0/0), +-Inf
Rat(n, d) ==
    IF d = 0 THEN [n |-> Sgn(n), d |-> 0]
    ELSE LET g == GCD(Abs(n), Abs(d))
             s == IF d < 0 THEN -1 ELSE 1
         IN  [n |-> s * (n \div g), d |-> s * (d \div g)]

Zero == [n |-> 0, d |-> 1]
One == [n |-> 1, d |-> 1]
Int2Rat(k) == [n |-> k, d |-> 1]
IsFinite(x) == x.d # 0

\* comparisons with NaN are false
RatLT(x, y) ==
    /\ IsFinite(x)
    /\ IsFinite(y)
    /\ LET g == GCD(x.d, y.d) IN x.n * (y.d \div g) < y.n * (x.d \div g)
RatLE(x, y) ==
    /\ IsFinite(x)
    /\ IsFinite(y)
    /\ LET g == GCD(x.d, y.d) IN x.n * (y.d \div g) <= y.n * (x.d \div g)
RatAbs(x) == [n |-> Abs(x.n), d |-> x.d]
RatNeg(x) == [n |-> -x.n, d |-> x.d]
RatAdd(x, y) ==
    IF ~IsFinite(x) \/ ~IsFinite(y) THEN [n |-> 0, d |-> 0]
    ELSE LET g == GCD(x.d, y.d)
         IN  Rat(x.n * (y.d \div g) + y.n * (x.d \div g), (x.d \div g) * y.d)
RatSub(x, y) == RatAdd(x, RatNeg(y))
RatMul(x, y) ==
    IF ~IsFinite(x) \/ ~IsFinite(y) THEN [n |-> 0, d |-> 0]
    ELSE LET g1 == GCD(Abs(x.n), y.d)
             g2 == GCD(Abs(y.n), x.d)
         IN  Rat((x.n \div g1) * (y.n \div g2), (x.d \div g2) * (y.d \div g1))
RatDiv(x, y) ==
    IF ~IsFinite(x) \/ ~IsFinite(y) THEN [n |-> 0, d |-> 0]
    ELSE IF y.n = 0 THEN [n |-> Sgn(x.n), d |-> 0]
    ELSE RatMul(x, [n |-> Sgn(y.n) * y.d, d |-> Abs(y.n)])

\* ------------------------------------------------------------------ dates
\* time.Time.AddDate(0, 0, days)
AddDate(date, days) == date + days * TicksPerDay
\* time.Time.Format("2006-01-02"): the calendar day, time of day dropped
Format(date) == date \div TicksPerDay

\* --------------------------------------------------------- backtest inputs
\* calendar days on which an analysis can be dated
EntryDays == {Format(t) : t \in 0..MaxTick}
\* calendar days a lookup of RunBacktest can probe (one day past each window)
PriceDays ==
    {d \in 0..(Format(MaxTick) + Horizon30D + SearchWindow) :
        \E e \in EntryDays, h \in {0, Horizon1D, Horizon7D, Horizon30D} :
            e + h <= d /\ d <= e + h + SearchWindow}

\* stocks.PriceData of day d (Date, Open, Close; High, Low, Volume unused)
PricePoint(d, tr) ==
    [Date |-> d, Open |-> OpenBase, Close |-> OpenBase + tr * d - tr]

\* a row scanned by GetHistoricalAnalyses: derived fields hold Go zero values
NewEntry(date, risk) ==
    [Date |-> date, RiskScore |-> risk, OpenPrice |-> 0,
     ClosePrice1D |-> 0, ClosePrice7D |-> 0, ClosePrice30D |-> 0,
     Return1D |-> Zero, Return7D |-> Zero, Return30D |-> Zero]

NewEntries == {NewEntry(t, r) : t \in 0..MaxTick, r \in RiskLabels}

\* ORDER BY date ASC
SortedByDate(es) == \A k \in 1..(Len(es) - 1) : es[k].Date <= es[k + 1].Date

EntryLists ==
    {es \in UNION {[1..n -> NewEntries] : n \in 0..MaxEntries} : SortedByDate(es)}

\* the error values RunBacktest can return
NoError == "nil"
ErrStore == "GetHistoricalAnalyses failed"
ErrNoData == "no historical data found"
ErrFetch == "failed to fetch stock data"

NoResult ==
    [TotalAnalyses |-> 0, Accuracy1D |-> Zero, Accuracy7D |-> Zero,
     Accuracy30D |-> Zero]

\* ------------------------------------------------- getClosePriceNDaysLater
\* a lookup that tries the target date alone
getClosePriceExactDay(pm, date, days) ==
    LET checkDate == Format(AddDate(date, days))
    IN  IF checkDate \in DOMAIN pm THEN pm[checkDate].Close ELSE 0

RECURSIVE ProbeForward(_, _, _)
ProbeForward(pm, targetDate, offset) ==
    IF offset >= SearchWindow THEN 0
    ELSE LET checkDate == Format(AddDate(targetDate, offset))
         IN  IF checkDate \in DOMAIN pm THEN pm[checkDate].Close
             ELSE ProbeForward(pm, targetDate, offset + 1)

getClosePriceNDaysLater(pm, date, days) ==
    ProbeForward(pm, AddDate(date, days), 0)

\* ---------------------------------------------------- RunBacktest, per entry
\* ((close - open) / open) * 100
ReturnPct(close, open) == Rat((close - open) * 100, open)

\* an enrichment that adds each new return to the one the record holds
EnrichEntryAccumulating(pm, e) ==
    LET analysisDate == Format(e.Date)
    IN  IF analysisDate \in DOMAIN pm
        THEN LET open == pm[analysisDate].Open
                 c1 == getClosePriceNDaysLater(pm, e.Date, Horizon1D)
                 c7 == getClosePriceNDaysLater(pm, e.Date, Horizon7D)
                 c30 == getClosePriceNDaysLater(pm, e.Date, Horizon30D)
             IN  [e EXCEPT !.OpenPrice = open,
                           !.ClosePrice1D = c1,
                           !.ClosePrice7D = c7,
                           !.ClosePrice30D = c30,
                           !.Return1D = IF open > 0 THEN RatAdd(@, ReturnPct(c1, open)) ELSE @,
                           !.Return7D = IF open > 0 THEN RatAdd(@, ReturnPct(c7, open)) ELSE @,
                           !.Return30D = IF open > 0 THEN RatAdd(@, ReturnPct(c30, open)) ELSE @]
        ELSE e

EnrichEntry(pm, e) ==
    LET analysisDate == Format(e.Date)
    IN  IF analysisDate \in DOMAIN pm
        THEN LET open == pm[analysisDate].Open
                 c1 == getClosePriceNDaysLater(pm, e.Date, Horizon1D)
                 c7 == getClosePriceNDaysLater(pm, e.Date, Horizon7D)
                 c30 == getClosePriceNDaysLater(pm, e.Date, Horizon30D)
             IN  [e EXCEPT !.OpenPrice = open,
                           !.ClosePrice1D = c1,
                           !.ClosePrice7D = c7,
                           !.ClosePrice30D = c30,
                           !.Return1D = IF open > 0 THEN ReturnPct(c1, open) ELSE @,
                           !.Return7D = IF open > 0 THEN ReturnPct(c7, open) ELSE @,
                           !.Return30D = IF open > 0 THEN ReturnPct(c30, open) ELSE @]
        ELSE e

\* -------------------------------------------------------- calculateAccuracy
ActualReturn(entry, horizon) ==
    CASE horizon = "1D" -> entry.Return1D
      [] horizon = "7D" -> entry.Return7D
      [] horizon = "30D" -> entry.Return30D
      [] OTHER -> Zero

\* if actualReturn == 0 { continue }
Skipped(entry, horizon) == ActualReturn(entry, horizon) = Zero

\* the scoring chain with the Moderate Risk band open below
ScoredNoAbs(predicted, actualReturn) ==
    IF predicted = "Safe Investment" /\ RatLT(Int2Rat(2), actualReturn) THEN TRUE
    ELSE IF predicted = "Very High Risk" /\ RatLT(actualReturn, Int2Rat(-2)) THEN TRUE
    ELSE IF predicted = "High Risk" /\ RatLT(actualReturn, Zero) THEN TRUE
    ELSE IF predicted = "Moderate Risk" /\ RatLT(actualReturn, Int2Rat(5)) THEN TRUE
    ELSE FALSE

\* the scoring chain
Scored(predicted, actualReturn) ==
    IF predicted = "Safe Investment" /\ RatLT(Int2Rat(2), actualReturn) THEN TRUE
    ELSE IF predicted = "Very High Risk" /\ RatLT(actualReturn, Int2Rat(-2)) THEN TRUE
    ELSE IF predicted = "High Risk" /\ RatLT(actualReturn, Zero) THEN TRUE
    ELSE IF predicted = "Moderate Risk" /\ RatLT(RatAbs(actualReturn), Int2Rat(5)) THEN TRUE
    ELSE FALSE

\* <<correct, total>> after the loop over es[k..]
RECURSIVE Tally(_, _, _, _, _)
Tally(es, horizon, k, correct, total) ==
    IF k > Len(es) THEN <<correct, total>>
    ELSE IF Skipped(es[k], horizon) THEN Tally(es, horizon, k + 1, correct, total)
    ELSE Tally(es, horizon, k + 1,
               IF Scored(es[k].RiskScore, ActualReturn(es[k], horizon))
               THEN correct + 1 ELSE correct,
               total + 1)

calculateAccuracy(es, horizon) ==
    LET t == Tally(es, horizon, 1, 0, 0)
    IN  IF t[2] = 0 THEN Zero ELSE Rat(t[1] * 100, t[2])

\* ------------------------------------------------------ RunBacktest, steps
EmptyMap == [d \in {} |-> PricePoint(d, 0)]

InitBT ==
    /\ priceMap = EmptyMap
    /\ trend \in Trends
    /\ entries = <<>>
    /\ pc = "start"
    /\ i = 1
    /\ result = NoResult
    /\ err = NoError

\* b.db.GetHistoricalAnalyses fails
LoadFails ==
    /\ pc = "start"
    /\ pc' = "error"
    /\ err' = ErrStore
    /\ UNCHANGED <<priceMap, trend, entries, i, result>>
    /\ UNCHANGED otherThanBT

\* b.db.GetHistoricalAnalyses returns es; an empty list is an error
LoadEntries ==
    /\ pc = "start"
    /\ \E es \in EntryLists :
        /\ entries' = es
        /\ pc' = IF Len(es) = 0 THEN "error" ELSE "fetch"
        /\ err' = IF Len(es) = 0 THEN ErrNoData ELSE NoError
    /\ UNCHANGED <<priceMap, trend, i, result>>
    /\ UNCHANGED otherThanBT

\* b.stockClient.GetHistoricalData fails
FetchFails ==
    /\ pc = "fetch"
    /\ DOMAIN priceMap = {}
    /\ pc' = "error"
    /\ err' = ErrFetch
    /\ UNCHANGED <<priceMap, trend, entries, i, result>>
    /\ UNCHANGED otherThanBT

\* one iteration of  for _, price := range allPrices  (the series is ascending)
AddPrice ==
    /\ pc = "fetch"
    /\ Cardinality(DOMAIN priceMap) < MaxPrices
    /\ \E d \in PriceDays :
        /\ \A x \in DOMAIN priceMap : x < d
        /\ priceMap' = [x \in DOMAIN priceMap \cup {d} |->
                            IF x = d THEN PricePoint(d, trend) ELSE priceMap[x]]
    /\ UNCHANGED <<trend, entries, pc, i, result, err>>
    /\ UNCHANGED otherThanBT

\* the price map is complete
MapBuilt ==
    /\ pc = "fetch"
    /\ pc' = "enrich"
    /\ i' = 1
    /\ UNCHANGED <<priceMap, trend, entries, result, err>>
    /\ UNCHANGED otherThanBT

\* one iteration of  for i := range entries
Enrich ==
    /\ pc = "enrich"
    /\ i <= Len(entries)
    /\ entries' = [entries EXCEPT ![i] = EnrichEntry(priceMap, entries[i])]
    /\ i' = i + 1
    /\ UNCHANGED <<priceMap, trend, pc, result, err>>
    /\ UNCHANGED otherThanBT

\* result := models.BacktestResult{...}; return result, nil
Finish ==
    /\ pc = "enrich"
    /\ i > Len(entries)
    /\ result' = [TotalAnalyses |-> Len(entries),
                  Accuracy1D |-> calculateAccuracy(entries, "1D"),
                  Accuracy7D |-> calculateAccuracy(entries, "7D"),
                  Accuracy30D |-> calculateAccuracy(entries, "30D")]
    /\ pc' = "done"
    /\ UNCHANGED <<priceMap, trend, entries, i, err>>
    /\ UNCHANGED otherThanBT

NextBT == LoadFails \/ LoadEntries \/ FetchFails \/ AddPrice \/ MapBuilt \/ Enrich \/ Finish


\* ============================================================== aggregator
\* models.Sentiment, components in hundredths
Sentiment(p, u, n) ==
    [Positive |-> Rat(p, 100), Neutral |-> Rat(u, 100), Negative |-> Rat(n, 100)]

SentimentSamples ==
    {Sentiment(100, 0, 0), Sentiment(0, 0, 100), Sentiment(50, 30, 20),
     Sentiment(20, 30, 50), Sentiment(33, 34, 33)}

ArticleSamples ==
    {[Body |-> "preview", Sentiment |-> s, ImpactScore |-> Int2Rat(w)] :
        s \in SentimentSamples, w \in 0..MaxImpact}

\* score := article.Sentiment.Positive - article.Sentiment.Negative
Score(article) == RatSub(article.Sentiment.Positive, article.Sentiment.Negative)

\* <<weightedSum, totalWeight>> after the loop over as[k..]
RECURSIVE WeightedSums(_, _, _, _)
WeightedSums(as, k, weightedSum, totalWeight) ==
    IF k > Len(as) THEN <<weightedSum, totalWeight>>
    ELSE WeightedSums(as, k + 1,
                      RatAdd(weightedSum, RatMul(Score(as[k]), as[k].ImpactScore)),
                      RatAdd(totalWeight, as[k].ImpactScore))

\* the weighted mean with the plain count as denominator
calculateWeightedSentimentByCount(as) ==
    IF Len(as) = 0 THEN Zero
    ELSE LET t == WeightedSums(as, 1, Zero, Zero)
         IN  IF t[2] = Zero THEN Zero ELSE RatDiv(t[1], Int2Rat(Len(as)))

\* the weighted mean without the zero-weight guard
calculateWeightedSentimentUnguarded(as) ==
    IF Len(as) = 0 THEN Zero
    ELSE LET t == WeightedSums(as, 1, Zero, Zero)
         IN  RatDiv(t[1], t[2])

\* the weighted sum, never divided by the total weight
calculateWeightedSentimentNoDivide(as) ==
    IF Len(as) = 0 THEN Zero
    ELSE LET t == WeightedSums(as, 1, Zero, Zero)
         IN  IF t[2] = Zero THEN Zero ELSE t[1]

calculateWeightedSentiment(as) ==
    IF Len(as) = 0 THEN Zero
    ELSE LET t == WeightedSums(as, 1, Zero, Zero)
         IN  IF t[2] = Zero THEN Zero ELSE RatDiv(t[1], t[2])

\* <<variance, totalWeight>> after the loop over as[k..]
RECURSIVE VarianceSums(_, _, _, _, _)
VarianceSums(as, mean, k, variance, totalWeight) ==
    IF k > Len(as) THEN <<variance, totalWeight>>
    ELSE LET diff == RatSub(Score(as[k]), mean)
         IN  VarianceSums(as, mean, k + 1,
                          RatAdd(variance, RatMul(as[k].ImpactScore, RatMul(diff, diff))),
                          RatAdd(totalWeight, as[k].ImpactScore))

\* A consensus is the float 0 (zero = TRUE) or 1 / (1 + Sqrt(sq)): the
\* square root is kept symbolic, sq is the exact variance / totalWeight.
ConsensusZero == [zero |-> TRUE, sq |-> Zero]
ConsensusOf(sq) == [zero |-> FALSE, sq |-> sq]

calculateConsensus(as) ==
    IF Len(as) = 0 THEN ConsensusZero
    ELSE LET mean == calculateWeightedSentiment(as)
             t == VarianceSums(as, mean, 1, Zero, Zero)
         IN  IF t[2] = Zero THEN ConsensusZero
             ELSE ConsensusOf(RatDiv(t[1], t[2]))

\* avgSentiment * consensus > t, exactly: with s = Sqrt(c.sq) >= 0,
\* avg / (1 + s) > t  <=>  avg - t > t * s
AdjustedGT(avg, c, t) ==
    IF c.zero THEN RatLT(t, RatMul(avg, Zero))
    ELSE LET L == RatSub(avg, t)
             L2 == RatMul(L, L)
             R2 == RatMul(RatMul(t, t), c.sq)
         IN  IF t = Zero THEN RatLT(Zero, L)
             ELSE IF RatLT(Zero, t) THEN RatLT(Zero, L) /\ RatLT(R2, L2)
             ELSE \/ RatLT(Zero, L)
                  \/ L = Zero /\ RatLT(Zero, c.sq)
                  \/ RatLT(L, Zero) /\ RatLT(L2, R2)

\* avgSentiment * consensus = t, exactly
AdjustedEQ(avg, c, t) ==
    IF c.zero THEN t = RatMul(avg, Zero)
    ELSE LET L == RatSub(avg, t)
         IN  /\ RatMul(L, L) = RatMul(RatMul(t, t), c.sq)
             /\ (RatLT(Zero, t) => RatLE(Zero, L))
             /\ (RatLT(t, Zero) => RatLE(L, Zero))

\* the threshold chain with >= in place of > at the first boundary
determineRiskWeightedInclusive(as) ==
    LET avgSent == calculateWeightedSentiment(as)
        biasMultiplier == calculateConsensus(as)
    IN  IF \/ AdjustedGT(avgSent, biasMultiplier, Rat(3, 10))
           \/ AdjustedEQ(avgSent, biasMultiplier, Rat(3, 10)) THEN "Safe Investment"
        ELSE IF AdjustedGT(avgSent, biasMultiplier, Zero) THEN "Moderate Risk"
        ELSE IF AdjustedGT(avgSent, biasMultiplier, Rat(-3, 10)) THEN "High Risk"
        ELSE "Very High Risk"

determineRiskWeighted(as) ==
    LET avgSent == calculateWeightedSentiment(as)
        biasMultiplier == calculateConsensus(as)
    IN  IF AdjustedGT(avgSent, biasMultiplier, Rat(3, 10)) THEN "Safe Investment"
        ELSE IF AdjustedGT(avgSent, biasMultiplier, Zero) THEN "Moderate Risk"
        ELSE IF AdjustedGT(avgSent, biasMultiplier, Rat(-3, 10)) THEN "High Risk"
        ELSE "Very High Risk"

\* the analysis: AvgSentiment and RiskScore from the articles
InitAgg ==
    /\ \E n \in 0..MaxArticles : articles \in [1..n -> ArticleSamples]
    /\ avgSentiment = Zero
    /\ consensus = ConsensusZero
    /\ riskScore = ""
    /\ aggPc = "scored"

IdleAgg ==
    /\ articles = <<>>
    /\ avgSentiment = Zero
    /\ consensus = ConsensusZero
    /\ riskScore = ""
    /\ aggPc = "idle"

\* CompanyAnalysis{AvgSentiment: calculateWeightedSentiment(articles),
\*                 RiskScore: determineRiskWeighted(articles)}
Analyze ==
    /\ aggPc = "scored"
    /\ avgSentiment' = calculateWeightedSentiment(articles)
    /\ consensus' = calculateConsensus(articles)
    /\ riskScore' = determineRiskWeighted(articles)
    /\ aggPc' = "analyzed"
    /\ UNCHANGED articles
    /\ UNCHANGED otherThanAgg

IdleBT ==
    /\ priceMap = EmptyMap
    /\ trend = 0
    /\ entries = <<>>
    /\ pc = "idle"
    /\ i = 1
    /\ result = NoResult
    /\ err = NoError

\* records as the enrichment loop leaves them, for calculateAccuracy alone:
\* open OpenBase, forward closes drawn from samples (0 = no close found)
CloseSamples == <<95, 98, 99, 100, 102, 103, 105, 0>>

CloseAt(k) == CloseSamples[((k - 1) % Len(CloseSamples)) + 1]

ScoredEntry(risk, k) ==
    [NewEntry(0, risk) EXCEPT
        !.OpenPrice = OpenBase,
        !.ClosePrice1D = CloseAt(k),
        !.ClosePrice7D = CloseAt(k + 3),
        !.ClosePrice30D = CloseAt(k + 5),
        !.Return1D = ReturnPct(CloseAt(k), OpenBase),
        !.Return7D = ReturnPct(CloseAt(k + 3), OpenBase),
        !.Return30D = ReturnPct(CloseAt(k + 5), OpenBase)]

ScoredEntries ==
    {ScoredEntry(r, k) : r \in RiskLabels, k \in 1..Len(CloseSamples)}

InitAcc ==
    /\ priceMap = EmptyMap
    /\ trend = 0
    /\ \E n \in 0..MaxScored : entries \in [1..n -> ScoredEntries]
    /\ pc = "enrich"
    /\ i = Len(entries) + 1
    /\ result = NoResult
    /\ err = NoError

\* ===================================================== analyzeSentimentConcurrent
Workers == 1..MaxWorkers

\* models.Sentiment{}: the Go zero value
NoSentiment == Sentiment(0, 0, 0)
\* models.Sentiment{Positive: 0.33, Neutral: 0.34, Negative: 0.33}
NeutralSentinel == Sentiment(33, 34, 33)
\* what the classifier service can answer
ClassifierResults == {Sentiment(100, 0, 0), Sentiment(0, 0, 100)}

\* an article as the scraper leaves it: a preview body (possibly empty), no
\* sentiment, no impact score
ScrapedArticles ==
    {[Body |-> b, Sentiment |-> NoSentiment, ImpactScore |-> Zero] :
        b \in {"", "preview"}}

\* for idx := range articlesChan, with the index left on the channel
ReceivePeek(ch) == <<Head(ch), ch>>

\* for idx := range articlesChan: <<idx, rest of the channel>>
Receive(ch) == <<Head(ch), Tail(ch)>>

\* sentiment, err := analyzeSentiment(fullText): the possible outcomes
\* (called marks an entry of the history; err # nil is failed = TRUE)
CallFailed == [called |-> TRUE, failed |-> TRUE, sentiment |-> NoSentiment]
CallOk(s) == [called |-> TRUE, failed |-> FALSE, sentiment |-> s]
NotCalled == [called |-> FALSE, failed |-> FALSE, sentiment |-> NoSentiment]

AnalyzeOutcomes(text) ==
    IF text = "" THEN {CallFailed}
    ELSE {CallFailed} \cup {CallOk(s) : s \in ClassifierResults}

\* an error leaves the article's sentiment as it is
StoredSentimentNoFallback(old, outcome) ==
    IF outcome.failed THEN old ELSE outcome.sentiment

\* what the worker stores in articles[idx].Sentiment
StoredSentiment(old, outcome) ==
    IF outcome.failed THEN NeutralSentinel ELSE outcome.sentiment

InitConc ==
    /\ \E n \in 0..MaxBatch : articles \in [1..n -> ScrapedArticles]
    /\ numWorkers \in 0..MaxWorkers
    /\ articlesChan = <<>>
    /\ chanClosed = FALSE
    /\ mainPc = "send"
    /\ sendI = 1
    /\ wPc = [w \in Workers |-> IF w <= numWorkers THEN "recv" ELSE "off"]
    /\ wIdx = [w \in Workers |-> 0]
    /\ wText = [w \in Workers |-> ""]
    /\ dequeuedBy = [k \in 1..Len(articles) |-> <<>>]
    /\ callResult = [k \in 1..Len(articles) |-> NotCalled]

IdleConc ==
    /\ numWorkers = 0
    /\ articlesChan = <<>>
    /\ chanClosed = FALSE
    /\ mainPc = "idle"
    /\ sendI = 1
    /\ wPc = [w \in Workers |-> "off"]
    /\ wIdx = [w \in Workers |-> 0]
    /\ wText = [w \in Workers |-> ""]
    /\ dequeuedBy = <<>>
    /\ callResult = <<>>

\* articlesChan <- i   (the buffer holds len(articles): the send never blocks)
Send ==
    /\ mainPc = "send"
    /\ sendI <= Len(articles)
    /\ articlesChan' = Append(articlesChan, sendI)
    /\ sendI' = sendI + 1
    /\ UNCHANGED <<articles, numWorkers, chanClosed, mainPc, wPc, wIdx, wText,
                   dequeuedBy, callResult>>
    /\ UNCHANGED otherThanConc

\* close(articlesChan)
Close ==
    /\ mainPc = "send"
    /\ sendI > Len(articles)
    /\ chanClosed' = TRUE
    /\ mainPc' = "wait"
    /\ UNCHANGED <<articles, numWorkers, articlesChan, sendI, wPc, wIdx, wText,
                   dequeuedBy, callResult>>
    /\ UNCHANGED otherThanConc

\* wg.Wait(); return articles
Wait ==
    /\ mainPc = "wait"
    /\ \A w \in Workers : wPc[w] \in {"exit", "off"}
    /\ mainPc' = "returned"
    /\ UNCHANGED <<articles, numWorkers, articlesChan, chanClosed, sendI, wPc,
                   wIdx, wText, dequeuedBy, callResult>>
    /\ UNCHANGED otherThanConc

\* for idx := range articlesChan: an index is received
WorkerReceive(w) ==
    /\ wPc[w] = "recv"
    /\ articlesChan # <<>>
    /\ LET r == Receive(articlesChan)
       IN  /\ wIdx' = [wIdx EXCEPT ![w] = r[1]]
           /\ articlesChan' = r[2]
           /\ dequeuedBy' = [dequeuedBy EXCEPT ![r[1]] = Append(@, w)]
    /\ wPc' = [wPc EXCEPT ![w] = "fetch"]
    /\ UNCHANGED <<articles, numWorkers, chanClosed, mainPc, sendI, wText,
                   callResult>>
    /\ UNCHANGED otherThanConc

\* for idx := range articlesChan: the channel is closed and drained
WorkerExit(w) ==
    /\ wPc[w] = "recv"
    /\ articlesChan = <<>>
    /\ chanClosed
    /\ wPc' = [wPc EXCEPT ![w] = "exit"]
    /\ UNCHANGED <<articles, numWorkers, articlesChan, chanClosed, mainPc,
                   sendI, wIdx, wText, dequeuedBy, callResult>>
    /\ UNCHANGED otherThanConc

\* fullText, err := scraper.FetchFullArticle(...): the full text replaces the
\* body, or on an error the preview is used
WorkerFetch(w) ==
    /\ wPc[w] = "fetch"
    /\ \E ok \in BOOLEAN :
        IF ok
        THEN /\ wText' = [wText EXCEPT ![w] = "full"]
             /\ articles' = [articles EXCEPT ![wIdx[w]].Body = "full"]
        ELSE /\ wText' = [wText EXCEPT ![w] = articles[wIdx[w]].Body]
             /\ UNCHANGED articles
    /\ wPc' = [wPc EXCEPT ![w] = "analyze"]
    /\ UNCHANGED <<numWorkers, articlesChan, chanClosed, mainPc, sendI, wIdx,
                   dequeuedBy, callResult>>
    /\ UNCHANGED otherThanConc

\* sentiment, err := analyzeSentiment(fullText); the result or the neutral
\* sentinel is stored in articles[idx].Sentiment
WorkerAnalyze(w) ==
    /\ wPc[w] = "analyze"
    /\ \E outcome \in AnalyzeOutcomes(wText[w]) :
        /\ articles' = [articles EXCEPT ![wIdx[w]].Sentiment =
                            StoredSentiment(@, outcome)]
        /\ callResult' = [callResult EXCEPT ![wIdx[w]] = outcome]
    /\ wPc' = [wPc EXCEPT ![w] = "recv"]
    /\ UNCHANGED <<numWorkers, articlesChan, chanClosed, mainPc, sendI, wIdx,
                   wText, dequeuedBy>>
    /\ UNCHANGED otherThanConc

WorkerStep(w) ==
    WorkerReceive(w) \/ WorkerExit(w) \/ WorkerFetch(w) \/ WorkerAnalyze(w)

MainStep == Send \/ Close \/ Wait

NextConc == MainStep \/ \E w \in Workers : WorkerStep(w)

\* ======================================================= validation sweep
\* a rule whose Moderate Risk band is the one of the backtest, |return| < 5
validatePredictionAbsBand(predicted, actualReturn) ==
    IF predicted = "Safe Investment" /\ RatLT(Int2Rat(2), actualReturn) THEN TRUE
    ELSE IF predicted = "Very High Risk" /\ RatLT(actualReturn, Int2Rat(-2)) THEN TRUE
    ELSE IF predicted = "High Risk" /\ RatLT(actualReturn, Zero) THEN TRUE
    ELSE IF predicted = "Moderate Risk" /\ RatLT(RatAbs(actualReturn), Int2Rat(5))
    THEN TRUE
    ELSE FALSE

validatePrediction(predicted, actualReturn) ==
    IF predicted = "Safe Investment" /\ RatLT(Int2Rat(2), actualReturn) THEN TRUE
    ELSE IF predicted = "Very High Risk" /\ RatLT(actualReturn, Int2Rat(-2)) THEN TRUE
    ELSE IF predicted = "High Risk" /\ RatLT(actualReturn, Zero) THEN TRUE
    ELSE IF predicted = "Moderate Risk" /\ RatLT(Int2Rat(-2), actualReturn)
                                       /\ RatLT(actualReturn, Int2Rat(5))
    THEN TRUE
    ELSE FALSE

\* one (label, return) pair under both rule sets: a test period of the sweep
\* and a stored record of the backtest with the same label, an open of
\* 2 * OpenBase and, at every horizon, a close off the open by k (returns in
\* steps of half a percent around the bands, 0 included)
CloseOffsets == -12..12

PairReturn(k) == ReturnPct(2 * OpenBase + k, 2 * OpenBase)

PairEntry(risk, k) ==
    [NewEntry(0, risk) EXCEPT
        !.OpenPrice = 2 * OpenBase,
        !.ClosePrice1D = 2 * OpenBase + k,
        !.ClosePrice7D = 2 * OpenBase + k,
        !.ClosePrice30D = 2 * OpenBase + k,
        !.Return1D = PairReturn(k),
        !.Return7D = PairReturn(k),
        !.Return30D = PairReturn(k)]

NewPrediction(risk, k) ==
    [PredictedRisk |-> risk, ActualReturn |-> PairReturn(k), Correct |-> FALSE]

InitVal ==
    /\ \E risk \in RiskLabels, k \in CloseOffsets :
          /\ prediction = NewPrediction(risk, k)
          /\ entries = <<PairEntry(risk, k)>>
    /\ valPc = "computed"
    /\ priceMap = EmptyMap
    /\ trend = 0
    /\ pc = "enrich"
    /\ i = 2
    /\ result = NoResult
    /\ err = NoError

IdleVal ==
    /\ prediction = [PredictedRisk |-> "", ActualReturn |-> Zero, Correct |-> FALSE]
    /\ valPc = "idle"

\* correct := validatePrediction(predictedRisk, actualReturn)
Validate ==
    /\ valPc = "computed"
    /\ prediction' = [prediction EXCEPT
                          !.Correct = validatePrediction(prediction.PredictedRisk,
                                                         prediction.ActualReturn)]
    /\ valPc' = "validated"
    /\ UNCHANGED otherThanVal

\* ============================================================ impact score
\* var sourceCredibility = map[string]float64{...}
sourceCredibility ==
    ("Reuters" :> One) @@ ("Bloomberg" :> One) @@
    ("Wall Street Journal" :> One) @@ ("Financial Times" :> Rat(95, 100)) @@
    ("CNBC" :> Rat(90, 100)) @@ ("MarketWatch" :> Rat(85, 100)) @@
    ("Seeking Alpha" :> Rat(75, 100)) @@ ("Motley Fool" :> Rat(70, 100)) @@
    ("Yahoo Finance" :> Rat(75, 100)) @@ ("Investor's Business" :> Rat(80, 100)) @@
    ("Barron's" :> Rat(90, 100)) @@ ("Forbes" :> Rat(85, 100)) @@
    ("Investing.com" :> Rat(70, 100))

\* credibility, exists := sourceCredibility[article.Source]
Credibility(article) ==
    IF article.Source \in DOMAIN sourceCredibility
    THEN sourceCredibility[article.Source] ELSE Rat(5, 10)

\* recencyWeight := 1.0 / (1.0 + hoursOld/24.0)
RecencyWeight(article) ==
    RatDiv(One, RatAdd(One, RatDiv(Int2Rat(article.HoursOld), Int2Rat(24))))

\* sentimentMagnitude := math.Abs(Positive - Negative)
SentimentMagnitude(article) ==
    RatAbs(RatSub(article.Sentiment.Positive, article.Sentiment.Negative))

\* the if / else if / else chain that sets confidence
Confidence(article) ==
    LET st == article.Sentiment
    IN  IF RatLT(st.Negative, st.Positive) /\ RatLT(st.Neutral, st.Positive)
        THEN st.Positive
        ELSE IF RatLT(st.Positive, st.Negative) /\ RatLT(st.Neutral, st.Negative)
        THEN st.Negative
        ELSE st.Neutral

calculateImpactScore(article) ==
    RatAdd(RatAdd(RatMul(Credibility(article), Rat(3, 10)),
                  RatMul(RecencyWeight(article), Rat(2, 10))),
           RatAdd(RatMul(SentimentMagnitude(article), Rat(3, 10)),
                  RatMul(Confidence(article), Rat(2, 10))))

\* classifier outputs: components in steps of 0.2 that sum to 1, ties included
SentimentGrid == {0, 20, 40, 60, 80, 100}
SentimentTriples ==
    {Sentiment(t[1], t[2], 100 - t[1] - t[2]) :
        t \in {x \in SentimentGrid \X SentimentGrid : x[1] + x[2] <= 100}}
\* a source of the table at 1.0, one below 1.0, and one not in the table
SourceSamples == {"Reuters", "Motley Fool", "Unknown Blog"}
\* time.Since(article.Timestamp).Hours()
HoursOldSamples == {0, 24, 72}

UnscoredArticles ==
    {[Source |-> src, HoursOld |-> hrs, Sentiment |-> st, ImpactScore |-> Zero] :
        src \in SourceSamples, hrs \in HoursOldSamples, st \in SentimentTriples}

InitImp ==
    /\ impArticle \in UnscoredArticles
    /\ confidence = One
    /\ impPc = "analyzed"

IdleImp ==
    /\ impArticle = [Source |-> "", HoursOld |-> 0, Sentiment |-> NoSentiment,
                     ImpactScore |-> Zero]
    /\ confidence = One
    /\ impPc = "idle"

\* articles[i].ImpactScore = calculateImpactScore(articles[i])
ScoreImpact ==
    /\ impPc = "analyzed"
    /\ confidence' = Confidence(impArticle)
    /\ impArticle' = [impArticle EXCEPT !.ImpactScore = calculateImpactScore(impArticle)]
    /\ impPc' = "scored"
    /\ UNCHANGED otherThanImp

\* ----------------------------------------------------------- specifications
\* RunBacktest on the rows of the store and the series of the stock service
Init == InitBT /\ IdleAgg /\ IdleConc /\ IdleImp /\ IdleVal
Spec == Init /\ [][NextBT]_vars

\* calculateAccuracy on a list of enriched records, as RunBacktest calls it
NextAcc == Finish
InitSpecAcc == InitAcc /\ IdleAgg /\ IdleConc /\ IdleImp /\ IdleVal
SpecAcc == InitSpecAcc /\ [][NextAcc]_vars

\* calculateWeightedSentiment, calculateConsensus and determineRiskWeighted
\* on a list of scored, weighted articles
NextAgg == Analyze
InitSpecAgg == IdleBT /\ InitAgg /\ IdleConc /\ IdleImp /\ IdleVal
SpecAgg == InitSpecAgg /\ [][NextAgg]_vars

\* calculateImpactScore on one analyzed article, as sortArticlesByImpact
\* calls it
NextImp == ScoreImpact
InitSpecImp == IdleBT /\ IdleAgg /\ IdleConc /\ InitImp /\ IdleVal
SpecImp == InitSpecImp /\ [][NextImp]_vars

\* the same (label, return) pair scored by validatePrediction, as the sweep
\* calls it, and by calculateAccuracy, as RunBacktest calls it
NextVal == Validate \/ Finish
InitSpecVal == InitVal /\ IdleAgg /\ IdleConc /\ IdleImp
SpecVal == InitSpecVal /\ [][NextVal]_vars

\* analyzeSentimentConcurrent on a batch of scraped articles. The goroutines
\* are scheduled fairly and every HTTP call returns (the clients carry
\* timeouts), so every enabled step is eventually taken.
InitSpecConc ==
    /\ IdleBT
    /\ avgSentiment = Zero /\ consensus = ConsensusZero /\ riskScore = ""
    /\ aggPc = "idle"
    /\ InitConc
    /\ IdleImp
    /\ IdleVal

SpecConc ==
    /\ InitSpecConc
    /\ [][NextConc]_vars
    /\ WF_vars(MainStep)
    /\ \A w \in Workers : WF_vars(WorkerStep(w))

\* ================================================================ backtest
HorizonDays(h) ==
    CASE h = "1D" -> Horizon1D [] h = "7D" -> Horizon7D [] h = "30D" -> Horizon30D

ClosePrice(entry, h) ==
    CASE h = "1D" -> entry.ClosePrice1D
      [] h = "7D" -> entry.ClosePrice7D
      [] h = "30D" -> entry.ClosePrice30D

\* the calendar days of the series among the days the lookup probes:
\* target, target+1, ..., target+SearchWindow-1
WindowDays(pm, target) ==
    {d \in DOMAIN pm : target <= d /\ d < target + SearchWindow}

MinDay(S) == CHOOSE d \in S : \A x \in S : d <= x

\* entry k has been through the enrichment loop and had an open price
Enriched(k) ==
    /\ pc \in {"enrich", "done"}
    /\ k < i
    /\ Format(entries[k].Date) \in DOMAIN priceMap

\* C1 (as claimed): once the backtest has returned, a horizon whose forward
\* price is in none of the probed days has no computed return and its record
\* is not counted by calculateAccuracy for that horizon.
C1_NoDataNotScored ==
    pc = "done" =>
        \A k \in 1..Len(entries), h \in Horizons :
            WindowDays(priceMap, Format(entries[k].Date) + HorizonDays(h)) = {}
                => /\ ActualReturn(entries[k], h) = Zero
                   /\ Skipped(entries[k], h)

\* C2 (as claimed): once the backtest has returned, every record with a
\* positive open price and a found forward close is counted by
\* calculateAccuracy for that horizon, a realized return of 0 included.
C2_ZeroReturnCounted ==
    pc = "done" =>
        \A k \in 1..Len(entries), h \in Horizons :
            ( /\ Format(entries[k].Date) \in DOMAIN priceMap
              /\ priceMap[Format(entries[k].Date)].Open > 0
              /\ WindowDays(priceMap, Format(entries[k].Date) + HorizonDays(h)) # {} )
                => ~Skipped(entries[k], h)

\* C5: for every enriched record and horizon, the forward close is the close
\* of the earliest day of the series among the probed days target ..
\* target+SearchWindow-1 (target = record day + horizon), it is the not-found
\* value 0 exactly when none of these days is in the series, and with a
\* positive open the return is (close - open) / open * 100 of that close.
C5_FirstHit ==
    \A k \in 1..Len(entries), h \in Horizons :
        Enriched(k) =>
            LET e == entries[k]
                win == WindowDays(priceMap, Format(e.Date) + HorizonDays(h))
                ret == ActualReturn(e, h)
            IN  /\ (win = {}) <=> (ClosePrice(e, h) = 0)
                /\ win # {} => ClosePrice(e, h) = priceMap[MinDay(win)].Close
                /\ (win # {} /\ e.OpenPrice > 0) =>
                       ret.n * e.OpenPrice = (ClosePrice(e, h) - e.OpenPrice) * 100 * ret.d

\* C5 witness: open 100 on day T, nothing on T+1 and T+2, close 102 on T+3:
\* the 1-day horizon uses the 102 point and the return is 2.
C5_Witness ==
    /\ pc = "done"
    /\ \E k \in 1..Len(entries) :
        LET T == Format(entries[k].Date)
        IN  /\ T \in DOMAIN priceMap
            /\ priceMap[T].Open = 100
            /\ T + 1 \notin DOMAIN priceMap
            /\ T + 2 \notin DOMAIN priceMap
            /\ T + 3 \in DOMAIN priceMap
            /\ priceMap[T + 3].Close = 102
            /\ entries[k].ClosePrice1D = 102
            /\ entries[k].Return1D = [n |-> 2, d |-> 1]

\* C3: for every list of records and every horizon, calculateAccuracy returns
\* 100 * correctCount / evaluatedCount over the records it evaluates (those
\* whose return field for the horizon is not 0), a record being correct iff
\* (Safe Investment and return > 2) or (Very High Risk and return < -2) or
\* (High Risk and return < 0) or (Moderate Risk and |return| < 5); the
\* result is exactly 0 when nothing is evaluated and always lies in [0,100].
ReturnField(e, h) ==
    IF h = "1D" THEN e.Return1D ELSE IF h = "7D" THEN e.Return7D ELSE e.Return30D

AccuracyField(h) ==
    IF h = "1D" THEN result.Accuracy1D
    ELSE IF h = "7D" THEN result.Accuracy7D ELSE result.Accuracy30D

EvaluatedSet(h) == {k \in 1..Len(entries) : ReturnField(entries[k], h).n # 0}

\* return > b and return < b for an integer b, on the fraction n/d
Above(r, b) == r.n > b * r.d
Below(r, b) == r.n < b * r.d

CorrectSet(h) ==
    {k \in EvaluatedSet(h) :
        LET r == ReturnField(entries[k], h)
            label == entries[k].RiskScore
        IN  \/ label = "Safe Investment" /\ Above(r, 2)
            \/ label = "Very High Risk" /\ Below(r, -2)
            \/ label = "High Risk" /\ Below(r, 0)
            \/ label = "Moderate Risk" /\ Above(r, -5) /\ Below(r, 5)}

C3_Accuracy ==
    pc = "done" =>
        \A h \in Horizons :
            LET acc == AccuracyField(h)
                evaluatedCount == Cardinality(EvaluatedSet(h))
                correctCount == Cardinality(CorrectSet(h))
            IN  /\ acc.d > 0
                /\ acc.n * evaluatedCount = 100 * correctCount * acc.d
                /\ evaluatedCount = 0 => acc = Zero
                /\ 0 <= acc.n /\ acc.n <= 100 * acc.d

\* C3 witness: three records, one horizon with nothing to evaluate (accuracy
\* 0) and one where a third of the evaluated records is correct.
C3_Witness ==
    /\ pc = "done"
    /\ Len(entries) = 3
    /\ \E h \in Horizons : EvaluatedSet(h) = {} /\ AccuracyField(h) = Zero
    /\ \E h \in Horizons :
          Cardinality(EvaluatedSet(h)) = 3 /\ AccuracyField(h) = [n |-> 100, d |-> 3]

\* ============================================================== aggregator
\* the largest x in lo..hi with (x / 100)^2 <= v
RECURSIVE SqrtFloor(_, _, _)
SqrtFloor(v, lo, hi) ==
    IF lo >= hi THEN lo
    ELSE LET mid == (lo + hi + 1) \div 2
         IN  IF RatLE(Rat(mid * mid, 10000), v) THEN SqrtFloor(v, mid, hi)
             ELSE SqrtFloor(v, lo, mid - 1)

\* Rational brackets of the analysis, computed once per state:
\*   stdDev = Sqrt(consensus.sq) lies in [stdLo, stdHi], the two coinciding
\*            (exact) when the root is a whole number of hundredths;
\*   consensus = 1 / (1 + stdDev) lies in [consLo, consHi];
\*   adjusted = avgSentiment * consensus lies in [adjLo, adjHi].
Brackets ==
    LET stdLo == Rat(SqrtFloor(consensus.sq, 0, 200), 100)
        exact == RatMul(stdLo, stdLo) = consensus.sq
        stdHi == IF exact THEN stdLo ELSE RatAdd(stdLo, Rat(1, 100))
        consLo == IF consensus.zero THEN Zero ELSE RatDiv(One, RatAdd(One, stdHi))
        consHi == IF consensus.zero THEN Zero ELSE RatDiv(One, RatAdd(One, stdLo))
        up == RatLE(Zero, avgSentiment)
    IN  [exact |-> exact, consLo |-> consLo, consHi |-> consHi,
         adjLo |-> RatMul(avgSentiment, IF up THEN consLo ELSE consHi),
         adjHi |-> RatMul(avgSentiment, IF up THEN consHi ELSE consLo)]

\* favourability of a label: larger is more favourable
Rank(label) ==
    CASE label = "Safe Investment" -> 3
      [] label = "Moderate Risk" -> 2
      [] label = "High Risk" -> 1
      [] label = "Very High Risk" -> 0

RECURSIVE TotalImpact(_)
TotalImpact(as) ==
    IF Len(as) = 0 THEN Zero
    ELSE RatAdd(as[1].ImpactScore, TotalImpact(Tail(as)))

\* components in [0,1] summing to 1, impact weight >= 0
WellFormed(a) ==
    /\ \A c \in {a.Sentiment.Positive, a.Sentiment.Neutral, a.Sentiment.Negative} :
          RatLE(Zero, c) /\ RatLE(c, One)
    /\ RatAdd(a.Sentiment.Positive, RatAdd(a.Sentiment.Neutral, a.Sentiment.Negative)) = One
    /\ RatLE(Zero, a.ImpactScore)

\* C4: the label is the number of the thresholds -0.3, 0, 0.3 that adjusted
\* = avgSentiment * consensus strictly exceeds (3 = Safe Investment ... 0 =
\* Very High Risk): a non-increasing step function of adjusted, a boundary
\* value falling in the less favourable bucket. adjusted lies in [adjLo,
\* adjHi], and adjLo = adjHi whenever the standard deviation is exact.
C4_StepFunction ==
    aggPc = "analyzed" =>
        LET br == Brackets
        IN  /\ riskScore \in RiskLabels
            /\ \A b \in {<<Rat(3, 10), 3>>, <<Zero, 2>>, <<Rat(-3, 10), 1>>} :
                  /\ RatLT(b[1], br.adjLo) => Rank(riskScore) >= b[2]
                  /\ Rank(riskScore) >= b[2] => RatLT(b[1], br.adjHi)

\* C4 witness: several articles, adjusted is exactly 0.3 and the label is
\* Moderate Risk
C4_Witness ==
    /\ aggPc = "analyzed"
    /\ Len(articles) >= 2
    /\ Brackets.exact
    /\ Brackets.adjLo = Rat(3, 10)
    /\ Brackets.adjHi = Rat(3, 10)
    /\ riskScore = "Moderate Risk"

\* C8: the aggregator's results are never NaN or infinite; on an empty
\* collection value = 0 and consensus = 0; whenever the total impact weight is
\* 0 the weighted mean is 0.
C8_NoDivideByZero ==
    aggPc = "analyzed" =>
        /\ IsFinite(avgSentiment)
        /\ IsFinite(consensus.sq)
        /\ Len(articles) = 0 => (avgSentiment = Zero /\ consensus = ConsensusZero)
        /\ TotalImpact(articles) = Zero => avgSentiment = Zero

\* C8 witness: articles with a non-zero score, all of impact 0
C8_Witness ==
    /\ aggPc = "analyzed"
    /\ Len(articles) >= 2
    /\ \A k \in 1..Len(articles) :
          articles[k].ImpactScore = Zero /\ Score(articles[k]) # Zero

\* C9 (as claimed): for a non-empty collection of well-formed articles the
\* value lies in [-1,1] and the consensus in (0,1].
C9_Ranges ==
    (aggPc = "analyzed" /\ Len(articles) >= 1
        /\ \A k \in 1..Len(articles) : WellFormed(articles[k]))
    => /\ RatLE(Int2Rat(-1), avgSentiment) /\ RatLE(avgSentiment, One)
       /\ LET br == Brackets IN RatLT(Zero, br.consLo) /\ RatLE(br.consHi, One)

\* C9 (amended): for a non-empty collection of well-formed articles whose
\* total impact weight is positive the value lies in [-1,1] and the consensus
\* in (0,1].
C9_RangesPositiveWeight ==
    (aggPc = "analyzed" /\ Len(articles) >= 1
        /\ (\A k \in 1..Len(articles) : WellFormed(articles[k]))
        /\ RatLT(Zero, TotalImpact(articles)))
    => /\ RatLE(Int2Rat(-1), avgSentiment) /\ RatLE(avgSentiment, One)
       /\ LET br == Brackets IN RatLT(Zero, br.consLo) /\ RatLE(br.consHi, One)

\* C9 witness: articles that disagree, one of them of impact 0
C9_Witness ==
    /\ aggPc = "analyzed"
    /\ Len(articles) >= 2
    /\ \A k \in 1..Len(articles) : WellFormed(articles[k])
    /\ \E k \in 1..Len(articles) : articles[k].ImpactScore = Zero
    /\ RatLT(Zero, TotalImpact(articles))
    /\ ~consensus.zero
    /\ consensus.sq # Zero

\* C10 (as claimed): for exactly one article the weighted mean is that
\* article's positive - negative, whatever its impact weight.
C10_SingleArticle ==
    (aggPc = "analyzed" /\ Len(articles) = 1)
    => avgSentiment = RatSub(articles[1].Sentiment.Positive,
                             articles[1].Sentiment.Negative)

\* C10 (amended): for exactly one article of non-zero impact weight the
\* weighted mean is that article's positive - negative.
C10_SingleArticleNonZeroWeight ==
    (aggPc = "analyzed" /\ Len(articles) = 1 /\ articles[1].ImpactScore # Zero)
    => avgSentiment = RatSub(articles[1].Sentiment.Positive,
                             articles[1].Sentiment.Negative)

\* C10 witness: one article of impact 2 and score 0.3
C10_Witness ==
    /\ aggPc = "analyzed"
    /\ Len(articles) = 1
    /\ articles[1].ImpactScore = Int2Rat(2)
    /\ avgSentiment = Rat(3, 10)

\* ===================================================== analyzeSentimentConcurrent
Busy(w) == wPc[w] \in {"fetch", "analyze"}

\* C6: every article index is received from the channel by at most one
\* worker, at most once; two workers never hold the same index; and when the
\* function returns with at least one worker, every index was received
\* exactly once.
C6_OneWorkerPerIndex ==
    /\ \A k \in 1..Len(articles) : Len(dequeuedBy[k]) <= 1
    /\ \A w1, w2 \in Workers :
          (w1 # w2 /\ Busy(w1) /\ Busy(w2)) => wIdx[w1] # wIdx[w2]
    /\ (mainPc = "returned" /\ numWorkers >= 1) =>
          \A k \in 1..Len(articles) : Len(dequeuedBy[k]) = 1

\* C6 witness: two articles, each received by a different worker
C6_Witness ==
    /\ mainPc = "returned"
    /\ Len(articles) = 2
    /\ dequeuedBy[1] = <<2>>
    /\ dequeuedBy[2] = <<1>>

\* on return every article holds the sentiment of its own call
C7_EachHoldsOwnResult ==
    (mainPc = "returned" /\ numWorkers >= 1) =>
        \A k \in 1..Len(articles) :
            /\ callResult[k].called
            /\ callResult[k].failed => articles[k].Sentiment = NeutralSentinel
            /\ ~callResult[k].failed =>
                  articles[k].Sentiment = callResult[k].sentiment

\* a step changes the sentiment of article k only as the end of k's own call
C7_OnlyOwnSlot ==
    \A k \in 1..Len(articles) :
        articles'[k].Sentiment # articles[k].Sentiment =>
            \E w \in Workers :
                /\ wPc[w] = "analyze" /\ wIdx[w] = k /\ wPc'[w] = "recv"
                /\ ~callResult[k].called /\ callResult'[k].called

\* C7: with at least one worker analyzeSentimentConcurrent returns; on return
\* every article holds the classifier's result if its call succeeded and the
\* neutral sentinel if it failed; and no step changes the sentiment of an
\* article other than the one whose call it ends.
C7_TerminatesWithSentiments ==
    /\ []C7_EachHoldsOwnResult
    /\ [][C7_OnlyOwnSlot]_vars
    /\ (numWorkers >= 1) => <>(mainPc = "returned")

\* C7 witness: returned with one call failed and another one succeeded
C7_Witness ==
    /\ mainPc = "returned"
    /\ numWorkers >= 2
    /\ Len(articles) = 2
    /\ callResult[1].failed
    /\ articles[1].Sentiment = NeutralSentinel
    /\ ~callResult[2].failed
    /\ articles[2].Sentiment = Sentiment(100, 0, 0)

\* ------------------------------------------------------------------ C11
\* C11: a backtest over zero historical records is not an error: once the
\* store has answered with no records, RunBacktest fails only if a service
\* fails, and otherwise returns a result with TotalAnalyses 0 and accuracy 0
\* for every horizon.
C11_EmptyIsNotAnError ==
    (pc \in {"error", "done"} /\ err # ErrStore /\ Len(entries) = 0) =>
        /\ err \in {NoError, ErrFetch}
        /\ err = NoError =>
              /\ result.TotalAnalyses = 0
              /\ result.Accuracy1D = Zero
              /\ result.Accuracy7D = Zero
              /\ result.Accuracy30D = Zero

\* ------------------------------------------------------------------ C12
\* C12: enrichment is idempotent: for every record the loop has enriched and
\* every price map, applying the enrichment step to the enriched record again
\* from the same map leaves the open price, the three closes and the three
\* returns (and every other field) as they are.
C12_EnrichIdempotent ==
    \A k \in 1..Len(entries) :
        (pc \in {"enrich", "done"} /\ k < i) =>
            EnrichEntry(priceMap, entries[k]) = entries[k]

\* C12 witness: the loop has enriched a record whose open price was found and
\* whose three returns are all set (non-zero)
C12_Witness ==
    /\ pc = "done"
    /\ \E k \in 1..Len(entries) :
          /\ Enriched(k)
          /\ entries[k].OpenPrice = OpenBase
          /\ entries[k].Return1D # Zero
          /\ entries[k].Return7D # Zero
          /\ entries[k].Return30D # Zero
          /\ entries[k].ClosePrice7D # 0

\* ------------------------------------------------------------------ C13
\* the days target, target+1, ..., target+SearchWindow: a tolerance of
\* SearchWindow days after the target
ToleranceDays(pm, target) ==
    {d \in DOMAIN pm : target <= d /\ d <= target + SearchWindow}

\* C13 (as claimed): the forward search covers the target day and the 5 days
\* after it: when the earliest day of the series at or after the target is at
\* most 5 days after the target (exactly 5 included), the close of the horizon
\* is the close of that day and not the not-found value.
C13_ToleranceFiveDays ==
    \A k \in 1..Len(entries), h \in Horizons :
        Enriched(k) =>
            LET e == entries[k]
                tol == ToleranceDays(priceMap, Format(e.Date) + HorizonDays(h))
            IN  tol # {} => ClosePrice(e, h) = priceMap[MinDay(tol)].Close

\* ------------------------------------------------------------------ C14
\* C14 (as claimed): the open price of a record is looked up like a forward
\* close: a record the loop has passed whose day, or one of the days the
\* lookup probes after it, is in the series holds the open of the earliest
\* such day and its three returns are computed from it; a record with no
\* such day keeps its derived fields unset and is not scored.
C14_OpenForwardTolerant ==
    \A k \in 1..Len(entries) :
        (pc \in {"enrich", "done"} /\ k < i) =>
            LET e == entries[k]
                win == WindowDays(priceMap, Format(e.Date))
            IN  /\ win # {} =>
                      /\ e.OpenPrice = priceMap[MinDay(win)].Open
                      /\ \A h \in Horizons :
                            LET ret == ActualReturn(e, h)
                            IN  ret.n * e.OpenPrice =
                                    (ClosePrice(e, h) - e.OpenPrice) * 100 * ret.d
                /\ win = {} =>
                      /\ e = NewEntry(e.Date, e.RiskScore)
                      /\ \A h \in Horizons : Skipped(e, h)

\* ------------------------------------------------------------------ C15
RatMax(x, y) == IF RatLT(x, y) THEN y ELSE x

\* C15 (as claimed): for every sentiment triple, ties included, the
\* confidence calculateImpactScore uses is the largest of the positive, the
\* neutral and the negative component.
C15_ConfidenceIsMax ==
    impPc = "scored" =>
        confidence = RatMax(impArticle.Sentiment.Positive,
                            RatMax(impArticle.Sentiment.Neutral,
                                   impArticle.Sentiment.Negative))

\* ------------------------------------------------------------------ C16
\* the pairs on which the two rule sets are said to differ
InModerateBand(predicted, r) ==
    /\ predicted = "Moderate Risk"
    /\ RatLT(Int2Rat(-5), r)
    /\ RatLE(r, Int2Rat(-2))

\* C16: for every (label, return) pair the scoring chain of calculateAccuracy
\* and validatePrediction give the same verdict, except for Moderate Risk
\* with -5 < return <= -2, which the backtest scores correct and the sweep
\* scores incorrect; and once both programs have run on the pair, the sweep's
\* Correct flag and the accuracy of the backtest over the one record (100 or
\* 0, the record being evaluated) show exactly that.
C16_RulesDifferOnlyOnModerateBand ==
    LET p == prediction.PredictedRisk
        r == prediction.ActualReturn
    IN  valPc # "idle" =>
            /\ IF InModerateBand(p, r)
               THEN Scored(p, r) /\ ~validatePrediction(p, r)
               ELSE Scored(p, r) = validatePrediction(p, r)
            /\ (valPc = "validated" /\ pc = "done" /\ ~Skipped(entries[1], "7D")) =>
                  IF InModerateBand(p, r)
                  THEN result.Accuracy7D = Int2Rat(100) /\ ~prediction.Correct
                  ELSE (result.Accuracy7D = Int2Rat(100)) = prediction.Correct

\* C16 witness: both programs have scored Moderate Risk with a return of
\* exactly -2: the backtest counts it correct, the sweep does not
C16_Witness ==
    /\ valPc = "validated"
    /\ pc = "done"
    /\ prediction.PredictedRisk = "Moderate Risk"
    /\ prediction.ActualReturn = Int2Rat(-2)
    /\ entries[1].Return7D = Int2Rat(-2)
    /\ result.Accuracy7D = Int2Rat(100)
    /\ ~prediction.Correct

====
